---- MODULE Spec2Model ----
(***************************************************************************)
(* Model of cmd/coolpack/prepare.go: the `prepare` command of coolpack.    *)
(*                                                                         *)
(* runPrepare obtains a base plan (plan file or detection), applies the    *)
(* override steps (commands, static server, SPA, output dir, custom        *)
(* packages, build env), creates .coolpack, asks the generator for the     *)
(* Dockerfile text and writes it.                                          *)
(*                                                                         *)
(* Strings whose characters the code inspects (COOLPACK_PACKAGES, package  *)
(* names, --build-env entries) are sequences of one-character strings;     *)
(* strings the code only compares with "" or with "true"/"1" are TLA+      *)
(* strings.                                                                *)
(***************************************************************************)
EXTENDS Integers, Sequences, FiniteSets, TLC

VARIABLES
    pc,          \* position inside runPrepare
    cli,         \* the flag globals prepare* (prepare.go:16-28) and args
    env,         \* the process environment read through os.Getenv/os.LookupEnv
    fs,          \* the project directory: what os.Stat reports of coolpack.json
    obs,         \* outcomes of the calls into the OS, detector and generator
    path,        \* local `path` of runPrepare
    planFile,    \* local `planFile` of runPrepare
    hasPlan,     \* plan != nil
    plan,        \* the *app.Plan being resolved
    before,      \* the plan as it was when the latest override step started
    applied,     \* override steps applied so far, in order
    result,      \* what runPrepare returned ("running" while it has not)
    detectCalls, \* calls of d.Detect()
    loadCalls,   \* calls of prepareLoadPlanFromFile
    loadedFrom,  \* the file name handed to prepareLoadPlanFromFile
    genCalls,    \* calls of gen.GenerateDockerfile()
    genInput,    \* the plan the generator was constructed with
    coolpackDir, \* os.MkdirAll(.coolpack) succeeded in this run
    dockerfile   \* what this run did to .coolpack/Dockerfile

vars == <<pc, cli, env, fs, obs, path, planFile, hasPlan, plan, before, applied,
          result, detectCalls, loadCalls, loadedFrom, genCalls, genInput,
          coolpackDir, dockerfile>>

-----------------------------------------------------------------------------
(* Bounds of the model *)

\* longest COOLPACK_PACKAGES value, in characters
MaxEnvLen == 4
\* longest list of packages (base plan, --packages)
MaxPkgs == 2
\* most --build-env entries
MaxBuildEnvs == 2

-----------------------------------------------------------------------------
(* Character strings *)

\* characters unicode.IsSpace accepts, which strings.TrimSpace strips: tab,
\* line feed, vertical tab, form feed, carriage return, space, U+0085, U+00A0,
\* U+1680, U+2000..U+200A, U+2028, U+2029, U+202F, U+205F, U+3000.  A
\* character is a one-character string; the code points from U+2000 on, which
\* a string of the module cannot hold, are written by their names.
WhiteSpace ==
    {"\t", "\n", "", "\f", "\r", " ", "", " ", " ",
     "U+2000", "U+2001", "U+2002", "U+2003", "U+2004", "U+2005",
     "U+2006", "U+2007", "U+2008", "U+2009", "U+200A",
     "U+2028", "U+2029", "U+202F", "U+205F", "U+3000"}

RECURSIVE SplitFrom(_, _, _, _)
SplitFrom(s, i, pieces, cur) ==
    IF i > Len(s) THEN Append(pieces, cur)
    ELSE IF s[i] = "," THEN SplitFrom(s, i + 1, Append(pieces, cur), <<>>)
    ELSE SplitFrom(s, i + 1, pieces, Append(cur, s[i]))

\* strings.Split(s, ","): the pieces between the commas, empty pieces kept
SplitComma(s) == SplitFrom(s, 1, <<>>, <<>>)

RECURSIVE TrimLeft(_)
TrimLeft(s) ==
    IF Len(s) > 0 /\ s[1] \in WhiteSpace THEN TrimLeft(Tail(s)) ELSE s

RECURSIVE TrimRight(_)
TrimRight(s) ==
    IF Len(s) > 0 /\ s[Len(s)] \in WhiteSpace
    THEN TrimRight(SubSeq(s, 1, Len(s) - 1))
    ELSE s

\* strings.TrimSpace
TrimSpace(s) == TrimRight(TrimLeft(s))

\* strings.Index(s, "="): 0 stands for Go's -1, otherwise the 1-based position
RECURSIVE IndexEqFrom(_, _)
IndexEqFrom(s, i) ==
    IF i > Len(s) THEN 0
    ELSE IF s[i] = "=" THEN i
    ELSE IndexEqFrom(s, i + 1)

IndexEq(s) == IndexEqFrom(s, 1)

-----------------------------------------------------------------------------
(* The plan *)

\* a map with no entries (make(map[...]) or a nil map read)
EmptyMap == [k \in {} |-> <<>>]

MapSet(m, key, v) == [k \in (DOMAIN m) \cup {key} |-> IF k = key THEN v ELSE m[k]]

MapDelete(m, key) == [k \in (DOMAIN m) \ {key} |-> m[k]]

\* the zero value of app.Plan (json.Unmarshal starts from it)
ZeroPlan ==
    [Language |-> "", InstallCommand |-> "", BuildCommand |-> "",
     StartCommand |-> "", BuildEnv |-> EmptyMap,
     MetadataNil |-> TRUE, Metadata |-> EmptyMap]

\* `if plan.Metadata == nil { plan.Metadata = make(map[string]interface{}) }`
EnsureMetadata(p) == [p EXCEPT !.MetadataNil = FALSE]

\* a []string value of metadata
StringList(items) ==
    [kind |-> "strings", items |-> [i \in 1..Len(items) |-> [isStr |-> TRUE, s |-> items[i]]]]

-----------------------------------------------------------------------------
(* The override steps *)

\* faulty variant of the chain: the environment is consulted before the flag
Overlay_EnvOverCli(base, envValue, cliValue) ==
    IF envValue # "" THEN envValue
    ELSE IF cliValue # "" THEN cliValue
    ELSE base

\* one `if cli != "" {..} else if env != "" {..}` chain
Overlay(base, envValue, cliValue) ==
    IF cliValue # "" THEN cliValue
    ELSE IF envValue # "" THEN envValue
    ELSE base

prepareApplyCommandOverrides(p, installCmd, buildCmd, startCmd, e) ==
    [p EXCEPT
        !.InstallCommand = Overlay(p.InstallCommand, e.INSTALL_CMD, installCmd),
        !.BuildCommand   = Overlay(p.BuildCommand, e.BUILD_CMD, buildCmd),
        !.StartCommand   = Overlay(p.StartCommand, e.START_CMD, startCmd)]

\* the metadata form of the chain: the key is written only by a non-empty value
OverlayKey(m, key, envValue, cliValue) ==
    IF cliValue # "" THEN MapSet(m, key, cliValue)
    ELSE IF envValue # "" THEN MapSet(m, key, envValue)
    ELSE m

\* faulty variant: the metadata map is made anew whether it was nil or not
prepareApplyStaticServerSetting_FreshMap(p, staticServer, e) ==
    [p EXCEPT !.MetadataNil = FALSE,
              !.Metadata = OverlayKey(EmptyMap, "static_server", e.STATIC_SERVER,
                                      staticServer)]

prepareApplyStaticServerSetting(p, staticServer, e) ==
    LET q == EnsureMetadata(p) IN
    [q EXCEPT !.Metadata =
        OverlayKey(q.Metadata, "static_server", e.STATIC_SERVER, staticServer)]

\* faulty variant: "1" is not accepted
Truthy_OnlyTrue(v) == v = "true"

Truthy(v) == v = "true" \/ v = "1"

\* faulty variant: layer by layer, so that --spa is honoured before
\* COOLPACK_NO_SPA is looked at
prepareApplySPASetting_FlagsFirst(p, spa, noSPA, e) ==
    LET q == EnsureMetadata(p) IN
    IF noSPA THEN [q EXCEPT !.Metadata = MapDelete(q.Metadata, "is_spa")]
    ELSE IF spa THEN [q EXCEPT !.Metadata = MapSet(q.Metadata, "is_spa", TRUE)]
    ELSE IF e.NO_SPA = "true" \/ e.NO_SPA = "1"
         THEN [q EXCEPT !.Metadata = MapDelete(q.Metadata, "is_spa")]
    ELSE IF e.SPA = "true" \/ e.SPA = "1"
         THEN [q EXCEPT !.Metadata = MapSet(q.Metadata, "is_spa", TRUE)]
    ELSE q

prepareApplySPASetting(p, spa, noSPA, e) ==
    LET q == EnsureMetadata(p) IN
    IF noSPA THEN [q EXCEPT !.Metadata = MapDelete(q.Metadata, "is_spa")]
    ELSE IF Truthy(e.NO_SPA) THEN [q EXCEPT !.Metadata = MapDelete(q.Metadata, "is_spa")]
    ELSE IF spa THEN [q EXCEPT !.Metadata = MapSet(q.Metadata, "is_spa", TRUE)]
    ELSE IF Truthy(e.SPA) THEN [q EXCEPT !.Metadata = MapSet(q.Metadata, "is_spa", TRUE)]
    ELSE q

prepareApplyOutputDirSetting(p, outputDir, e) ==
    LET q == EnsureMetadata(p) IN
    [q EXCEPT !.Metadata =
        OverlayKey(q.Metadata, "output_dir_override", e.SPA_OUTPUT_DIR, outputDir)]

\* the entries of a sequence that satisfy isStr, as plain strings, in order
RECURSIVE StringsOf(_, _, _)
StringsOf(items, i, acc) ==
    IF i > Len(items) THEN acc
    ELSE IF items[i].isStr THEN StringsOf(items, i + 1, Append(acc, items[i].s))
    ELSE StringsOf(items, i + 1, acc)

\* the two type assertions on plan.Metadata["custom_packages"]
ExistingPackages(m) ==
    IF "custom_packages" \notin DOMAIN m THEN <<>>
    ELSE IF m["custom_packages"].kind = "ifaces"
         THEN StringsOf(m["custom_packages"].items, 1, <<>>)
    ELSE IF m["custom_packages"].kind = "strings"
         THEN [i \in 1..Len(m["custom_packages"].items) |-> m["custom_packages"].items[i].s]
    ELSE <<>>

\* the loop over strings.Split(env, ","): trim, keep the non-empty
RECURSIVE EnvPackagesFrom(_, _, _)
EnvPackagesFrom(pieces, i, acc) ==
    IF i > Len(pieces) THEN acc
    ELSE LET pkg == TrimSpace(pieces[i]) IN
         IF pkg # <<>> THEN EnvPackagesFrom(pieces, i + 1, Append(acc, pkg))
         ELSE EnvPackagesFrom(pieces, i + 1, acc)

EnvPackages(v) == IF v # <<>> THEN EnvPackagesFrom(SplitComma(v), 1, <<>>) ELSE <<>>

\* the `seen` loop
RECURSIVE DedupFrom(_, _, _, _)
DedupFrom(list, i, seen, unique) ==
    IF i > Len(list) THEN unique
    ELSE IF list[i] \notin seen
         THEN DedupFrom(list, i + 1, seen \cup {list[i]}, Append(unique, list[i]))
    ELSE DedupFrom(list, i + 1, seen, unique)

\* faulty variant: the gathered list is stored as it is
Deduplicate_Nothing(list) == list

Deduplicate(list) == DedupFrom(list, 1, {}, <<>>)

\* faulty variant: the environment packages are appended before --packages
GatherPackages_EnvBeforeCli(m, packages, e) ==
    ExistingPackages(m) \o EnvPackages(e.PACKAGES) \o packages

\* customPackages as it stands at the `len(customPackages) == 0` test
GatherPackages(m, packages, e) ==
    ExistingPackages(m) \o packages \o EnvPackages(e.PACKAGES)

\* faulty variant: returns early when neither --packages nor COOLPACK_PACKAGES
\* adds anything, leaving the existing list as it is
prepareApplyCustomPackages_SkipWhenNothingAdded(p, packages, e) ==
    LET q == EnsureMetadata(p)
        added == packages \o EnvPackages(e.PACKAGES)
    IN  IF Len(added) = 0 THEN q
        ELSE [q EXCEPT !.Metadata =
                 MapSet(q.Metadata, "custom_packages",
                        StringList(Deduplicate(ExistingPackages(q.Metadata) \o added)))]

prepareApplyCustomPackages(p, packages, e) ==
    LET q == EnsureMetadata(p)
        customPackages == GatherPackages(q.Metadata, packages, e)
    IN  IF Len(customPackages) = 0 THEN q
        ELSE [q EXCEPT !.Metadata =
                 MapSet(q.Metadata, "custom_packages",
                        StringList(Deduplicate(customPackages)))]

\* one iteration of the loop of prepareParseEnvVars
ParseEntry(acc, entry, e) ==
    LET idx == IndexEq(entry) IN
    IF idx # 0
    THEN MapSet(acc, SubSeq(entry, 1, idx - 1), SubSeq(entry, idx + 1, Len(entry)))
    ELSE IF entry \in DOMAIN e.lookup THEN MapSet(acc, entry, e.lookup[entry])
    ELSE acc

RECURSIVE ParseFrom(_, _, _, _)
ParseFrom(envArgs, i, acc, e) ==
    IF i > Len(envArgs) THEN acc
    ELSE ParseFrom(envArgs, i + 1, ParseEntry(acc, envArgs[i], e), e)

prepareParseEnvVars(envArgs, e) == ParseFrom(envArgs, 1, EmptyMap, e)

\* faulty variant: the parsed entries are merged into the prior buildEnv
ApplyBuildEnv_Merge(p, envArgs, e) ==
    LET envMap == prepareParseEnvVars(envArgs, e) IN
    [p EXCEPT !.BuildEnv =
        [k \in (DOMAIN p.BuildEnv) \cup (DOMAIN envMap) |->
            IF k \in DOMAIN envMap THEN envMap[k] ELSE p.BuildEnv[k]]]

\* runPrepare, lines 137-141
ApplyBuildEnv(p, envArgs, e) ==
    LET envMap == prepareParseEnvVars(envArgs, e) IN
    IF Cardinality(DOMAIN envMap) > 0 THEN [p EXCEPT !.BuildEnv = envMap] ELSE p

\* runPrepare, lines 122-141: the six override steps in the order of the code
ApplyOverrides(p, c, e) ==
    ApplyBuildEnv(
        prepareApplyCustomPackages(
            prepareApplyOutputDirSetting(
                prepareApplySPASetting(
                    prepareApplyStaticServerSetting(
                        prepareApplyCommandOverrides(p, c.installCmd, c.buildCmd,
                                                     c.startCmd, e),
                        c.staticServer, e),
                    c.spa, c.noSPA, e),
                c.outputDir, e),
            c.packages, e),
        c.buildEnvs, e)

-----------------------------------------------------------------------------
(* runPrepare, step by step *)

DefaultPlanFile == "coolpack.json"

Unobserved == "-"

NoObs ==
    [abs |-> Unobserved, pathStat |-> Unobserved, defaultStat |-> Unobserved,
     load |-> Unobserved, detect |-> Unobserved, mkdir |-> Unobserved,
     gen |-> Unobserved, write |-> Unobserved]

\* lines 70-76: "." unless an argument or --path names another directory
ChoosePath(c) ==
    IF c.path # "" THEN c.path
    ELSE IF Len(c.args) > 0 THEN c.args[1]
    ELSE "."

Fail(msg) ==
    /\ result' = msg
    /\ pc' = "done"

\* lines 70-82: filepath.Abs(path)
ResolvePath ==
    /\ pc = "start"
    /\ path' = ChoosePath(cli)
    /\ \E r \in {"ok", "err"} :
          /\ obs' = [obs EXCEPT !.abs = r]
          /\ IF r = "err" THEN Fail("failed to resolve path")
             ELSE /\ pc' = "statPath"
                  /\ UNCHANGED result
    /\ UNCHANGED <<cli, env, fs, planFile, hasPlan, plan, before, applied, detectCalls,
                   loadCalls, loadedFrom, genCalls, genInput, coolpackDir, dockerfile>>

\* lines 84-87: only os.IsNotExist(err) stops the run
StatPath ==
    /\ pc = "statPath"
    /\ \E r \in {"ok", "notexist", "othererr"} :
          /\ obs' = [obs EXCEPT !.pathStat = r]
          /\ IF r = "notexist" THEN Fail("path does not exist")
             ELSE /\ pc' = "choosePlanFile"
                  /\ UNCHANGED result
    /\ UNCHANGED <<cli, env, fs, path, planFile, hasPlan, plan, before, applied, detectCalls,
                   loadCalls, loadedFrom, genCalls, genInput, coolpackDir, dockerfile>>

\* faulty variant: coolpack.json in the project root is preferred to --plan
ChoosePlanFile_DefaultFirst ==
    /\ pc = "choosePlanFile"
    /\ obs' = [obs EXCEPT !.defaultStat = IF fs.coolpackJson THEN "ok" ELSE "err"]
    /\ planFile' = IF fs.coolpackJson THEN DefaultPlanFile ELSE cli.planFile
    /\ pc' = IF planFile' # "" THEN "load" ELSE "detect"
    /\ UNCHANGED <<cli, env, fs, path, hasPlan, plan, before, applied, result, detectCalls,
                   loadCalls, loadedFrom, genCalls, genInput, coolpackDir, dockerfile>>

\* lines 91-98 and the test of line 100
ChoosePlanFile ==
    /\ pc = "choosePlanFile"
    /\ \/ /\ cli.planFile # ""
          /\ planFile' = cli.planFile
          /\ obs' = obs
       \/ /\ cli.planFile = ""
          /\ obs' = [obs EXCEPT !.defaultStat = IF fs.coolpackJson THEN "ok" ELSE "err"]
          /\ planFile' = IF fs.coolpackJson THEN DefaultPlanFile ELSE ""
    /\ pc' = IF planFile' # "" THEN "load" ELSE "detect"
    /\ UNCHANGED <<cli, env, fs, path, hasPlan, plan, before, applied, result, detectCalls,
                   loadCalls, loadedFrom, genCalls, genInput, coolpackDir, dockerfile>>

\* the plans a plan file can unmarshal to, in the pipeline specification
FilePlans ==
    { [ZeroPlan EXCEPT !.Language = l, !.StartCommand = s, !.MetadataNil = m[1],
                       !.Metadata = m[2]] :
        l \in {"", "static"}, s \in {"", "file-start"},
        m \in { <<TRUE, EmptyMap>>, <<FALSE, [is_spa |-> FALSE]>>,
                <<FALSE, [output_dir_override |-> "dist"]>> } }

\* the plans detection can return, in the pipeline specification
DetectedPlans ==
    { [ZeroPlan EXCEPT !.Language = "node", !.InstallCommand = "npm ci",
                       !.BuildCommand = b, !.StartCommand = "npm start",
                       !.MetadataNil = FALSE] : b \in {"", "npm run build"} }
        \cup { [ZeroPlan EXCEPT !.Language = "static", !.MetadataNil = FALSE,
                                !.Metadata = m] : m \in { EmptyMap, [is_spa |-> TRUE] } }

\* faulty variant: a plan file that cannot be loaded makes the run fall back
\* to detection
LoadPlan_FallBackToDetection ==
    /\ pc = "load"
    /\ loadCalls' = loadCalls + 1
    /\ loadedFrom' = planFile
    /\ \E r \in {"readerr", "parseerr", "ok"} :
          /\ obs' = [obs EXCEPT !.load = r]
          /\ IF r = "ok"
             THEN /\ \E p \in FilePlans : plan' = p
                  /\ hasPlan' = TRUE
                  /\ pc' = "commands"
             ELSE /\ pc' = "detect"
                  /\ UNCHANGED <<plan, hasPlan>>
    /\ UNCHANGED <<cli, env, fs, path, planFile, before, applied, result, detectCalls,
                   genCalls, genInput, coolpackDir, dockerfile>>

\* lines 100-107 with prepareLoadPlanFromFile (lines 315-327)
LoadPlan ==
    /\ pc = "load"
    /\ loadCalls' = loadCalls + 1
    /\ loadedFrom' = planFile
    /\ \E r \in {"readerr", "parseerr", "ok"} :
          /\ obs' = [obs EXCEPT !.load = r]
          /\ IF r = "ok"
             THEN /\ \E p \in FilePlans : plan' = p
                  /\ hasPlan' = TRUE
                  /\ pc' = "commands"
                  /\ UNCHANGED result
             ELSE /\ Fail("failed to load plan file")
                  /\ UNCHANGED <<plan, hasPlan>>
    /\ UNCHANGED <<cli, env, fs, path, planFile, before, applied, detectCalls,
                   genCalls, genInput, coolpackDir, dockerfile>>

\* lines 108-120: detector.New(absPath).Detect()
Detect ==
    /\ pc = "detect"
    /\ detectCalls' = detectCalls + 1
    /\ \E r \in {"err", "nil", "plan"} :
          /\ obs' = [obs EXCEPT !.detect = r]
          /\ IF r = "plan"
             THEN /\ \E p \in DetectedPlans : plan' = p
                  /\ hasPlan' = TRUE
                  /\ pc' = "commands"
                  /\ UNCHANGED result
             ELSE /\ Fail(IF r = "err" THEN "detection failed"
                          ELSE "no supported application detected")
                  /\ UNCHANGED <<plan, hasPlan>>
    /\ UNCHANGED <<cli, env, fs, path, planFile, before, applied, loadCalls, loadedFrom,
                   genCalls, genInput, coolpackDir, dockerfile>>

\* an override step: the plan becomes q, the step is recorded
OverrideStep(at, next, q) ==
    /\ pc = at
    /\ before' = plan
    /\ plan' = q
    /\ applied' = Append(applied, at)
    /\ pc' = next
    /\ UNCHANGED <<cli, env, fs, obs, path, planFile, hasPlan, result, detectCalls, loadCalls,
                   loadedFrom, genCalls, genInput, coolpackDir, dockerfile>>

\* line 123
ApplyCommandOverrides ==
    OverrideStep("commands", "staticServer",
        prepareApplyCommandOverrides(plan, cli.installCmd, cli.buildCmd, cli.startCmd, env))

\* line 126
ApplyStaticServerSetting ==
    OverrideStep("staticServer", "spa",
        prepareApplyStaticServerSetting(plan, cli.staticServer, env))

\* line 129
ApplySPASetting ==
    OverrideStep("spa", "outputDir",
        prepareApplySPASetting(plan, cli.spa, cli.noSPA, env))

\* line 132
ApplyOutputDirSetting ==
    OverrideStep("outputDir", "packages",
        prepareApplyOutputDirSetting(plan, cli.outputDir, env))

\* faulty variant: the build-env step is left out, .coolpack comes next
ApplyCustomPackages_SkipBuildEnv ==
    OverrideStep("packages", "mkdir",
        prepareApplyCustomPackages(plan, cli.packages, env))

\* line 135
ApplyCustomPackages ==
    OverrideStep("packages", "buildEnv",
        prepareApplyCustomPackages(plan, cli.packages, env))

\* lines 137-141
ApplyBuildEnvOverride ==
    OverrideStep("buildEnv", "mkdir", ApplyBuildEnv(plan, cli.buildEnvs, env))

\* lines 143-147: os.MkdirAll(coolpackDir)
MakeCoolpackDir ==
    /\ pc = "mkdir"
    /\ \E r \in {"ok", "err"} :
          /\ obs' = [obs EXCEPT !.mkdir = r]
          /\ coolpackDir' = (r = "ok")
          /\ IF r = "err" THEN Fail("failed to create .coolpack directory")
             ELSE /\ pc' = "generate"
                  /\ UNCHANGED result
    /\ UNCHANGED <<cli, env, fs, path, planFile, hasPlan, plan, before, applied, detectCalls,
                   loadCalls, loadedFrom, genCalls, genInput, dockerfile>>

\* faulty variant: the generator's error is dropped and whatever text it
\* returned is written
Generate_ErrorIgnored ==
    /\ pc = "generate"
    /\ genCalls' = genCalls + 1
    /\ genInput' = plan
    /\ \E r \in {"text", "err"} : obs' = [obs EXCEPT !.gen = r]
    /\ pc' = "write"
    /\ UNCHANGED <<cli, env, fs, path, planFile, hasPlan, plan, before, applied, result,
                   detectCalls, loadCalls, loadedFrom, coolpackDir, dockerfile>>

\* lines 149-154: generator.New(plan).GenerateDockerfile()
Generate ==
    /\ pc = "generate"
    /\ genCalls' = genCalls + 1
    /\ genInput' = plan
    /\ \E r \in {"text", "err"} :
          /\ obs' = [obs EXCEPT !.gen = r]
          /\ IF r = "err" THEN Fail("failed to generate Dockerfile")
             ELSE /\ pc' = "write"
                  /\ UNCHANGED result
    /\ UNCHANGED <<cli, env, fs, path, planFile, hasPlan, plan, before, applied, detectCalls,
                   loadCalls, loadedFrom, coolpackDir, dockerfile>>

\* lines 156-165: os.WriteFile(dockerfilePath, ...); a failed write may have
\* created or truncated the file already
WriteDockerfile ==
    /\ pc = "write"
    /\ \E r \in {"ok", "err"} :
          /\ obs' = [obs EXCEPT !.write = r]
          /\ IF r = "ok"
             THEN /\ dockerfile' = "written"
                  /\ result' = "nil"
                  /\ pc' = "done"
             ELSE /\ dockerfile' \in {"none", "partial"}
                  /\ Fail("failed to write Dockerfile")
    /\ UNCHANGED <<cli, env, fs, path, planFile, hasPlan, plan, before, applied, detectCalls,
                   loadCalls, loadedFrom, genCalls, genInput, coolpackDir>>

-----------------------------------------------------------------------------
(* Inputs *)

\* no flag given
DefaultCli ==
    [args |-> <<>>, path |-> "", buildEnvs |-> <<>>, installCmd |-> "", buildCmd |-> "",
     startCmd |-> "", staticServer |-> "", outputDir |-> "", spa |-> FALSE,
     noSPA |-> FALSE, packages |-> <<>>, planFile |-> ""]

\* no COOLPACK_* variable set
DefaultEnv ==
    [INSTALL_CMD |-> "", BUILD_CMD |-> "", START_CMD |-> "", STATIC_SERVER |-> "",
     NO_SPA |-> "", SPA |-> "", SPA_OUTPUT_DIR |-> "", PACKAGES |-> <<>>,
     lookup |-> EmptyMap]

\* the state at the entry of runPrepare
Entry(c, e, f) ==
    /\ pc = "start"
    /\ cli = c
    /\ env = e
    /\ fs = f
    /\ obs = NoObs
    /\ path = "."
    /\ planFile = ""
    /\ hasPlan = FALSE
    /\ plan = ZeroPlan
    /\ before = ZeroPlan
    /\ applied = <<>>
    /\ result = "running"
    /\ detectCalls = 0
    /\ loadCalls = 0
    /\ loadedFrom = ""
    /\ genCalls = 0
    /\ genInput = ZeroPlan
    /\ coolpackDir = FALSE
    /\ dockerfile = "none"

PipelineCli ==
    { [DefaultCli EXCEPT !.args = a, !.path = p, !.planFile = f, !.startCmd = s,
                         !.noSPA = n] :
        a \in {<<>>, <<"app">>}, p \in {"", "proj"}, f \in {"", "custom.json"},
        s \in {"", "cli-start"}, n \in BOOLEAN }

PipelineEnv ==
    { [DefaultEnv EXCEPT !.BUILD_CMD = b, !.SPA = s] :
        b \in {"", "env-build"}, s \in {"", "true"} }

\* os.Stat(<project>/coolpack.json) returns a nil error, or does not
ProjectDirs == { [coolpackJson |-> b] : b \in BOOLEAN }

Init == \E c \in PipelineCli, e \in PipelineEnv, f \in ProjectDirs : Entry(c, e, f)

Next ==
    \/ ResolvePath
    \/ StatPath
    \/ ChoosePlanFile
    \/ LoadPlan
    \/ Detect
    \/ ApplyCommandOverrides
    \/ ApplyStaticServerSetting
    \/ ApplySPASetting
    \/ ApplyOutputDirSetting
    \/ ApplyCustomPackages
    \/ ApplyBuildEnvOverride
    \/ MakeCoolpackDir
    \/ Generate
    \/ WriteDockerfile

Spec == Init /\ [][Next]_vars

-----------------------------------------------------------------------------
(* The override phase on its own: runPrepare at line 122, holding a base    *)
(* plan, for the inputs of one override step at a time                      *)

SeqsUpTo(S, n) == UNION { [1..k -> S] : k \in 0..n }

\* the state in which runPrepare reaches line 122 with base plan p, which came
\* from a plan file (fromFile) or from detection
AtOverrides(c, e, p, fromFile) ==
    /\ pc = "commands"
    /\ cli = c
    /\ env = e
    /\ fs = [coolpackJson |-> fromFile]
    /\ obs = [NoObs EXCEPT !.abs = "ok", !.pathStat = "ok",
                           !.defaultStat = IF fromFile THEN "ok" ELSE "err",
                           !.load = IF fromFile THEN "ok" ELSE Unobserved,
                           !.detect = IF fromFile THEN Unobserved ELSE "plan"]
    /\ path = "."
    /\ planFile = IF fromFile THEN DefaultPlanFile ELSE ""
    /\ hasPlan = TRUE
    /\ plan = p
    /\ before = ZeroPlan
    /\ applied = <<>>
    /\ result = "running"
    /\ detectCalls = IF fromFile THEN 0 ELSE 1
    /\ loadCalls = IF fromFile THEN 1 ELSE 0
    /\ loadedFrom = IF fromFile THEN DefaultPlanFile ELSE ""
    /\ genCalls = 0
    /\ genInput = ZeroPlan
    /\ coolpackDir = FALSE
    /\ dockerfile = "none"

\* a detected node plan, the base the inputs below vary
NodePlan ==
    [ZeroPlan EXCEPT !.Language = "node", !.InstallCommand = "npm ci",
                     !.StartCommand = "npm start", !.MetadataNil = FALSE]

\* the metadata maps that differ in one key: nil, empty, or the key with each value
MetaVariants(key, values) ==
    { <<TRUE, EmptyMap>>, <<FALSE, EmptyMap>> }
        \cup { <<FALSE, [k \in {key} |-> v]>> : v \in values }

WithMeta(p, m) == [p EXCEPT !.MetadataNil = m[1], !.Metadata = m[2]]

\* base, environment and flag values of the three commands
InitCommands ==
    \E bi \in {"", "npm ci"}, bb \in {"", "npm run build"}, bs \in {"", "npm start"},
       ei \in {"", "env-install"}, eb \in {"", "env-build"}, es \in {"", "env-start"},
       ci \in {"", "cli-install"}, cb \in {"", "cli-build"}, cs \in {"", "cli-start"} :
        AtOverrides(
            [DefaultCli EXCEPT !.installCmd = ci, !.buildCmd = cb, !.startCmd = cs],
            [DefaultEnv EXCEPT !.INSTALL_CMD = ei, !.BUILD_CMD = eb, !.START_CMD = es],
            [NodePlan EXCEPT !.InstallCommand = bi, !.BuildCommand = bb,
                             !.StartCommand = bs],
            FALSE)

\* base, environment and flag values of static_server and output_dir_override
InitMetaScalars ==
    \E ms \in MetaVariants("static_server", {"", "caddy"}) \cup
              MetaVariants("output_dir_override", {"", "dist"})
                  \cup { <<FALSE, [static_server |-> "caddy",
                                   output_dir_override |-> "dist"]>> },
       es \in {"", "nginx"}, cs \in {"", "caddy"},
       eo \in {"", "build"}, co \in {"", "out"}, fromFile \in BOOLEAN :
        AtOverrides(
            [DefaultCli EXCEPT !.staticServer = cs, !.outputDir = co],
            [DefaultEnv EXCEPT !.STATIC_SERVER = es, !.SPA_OUTPUT_DIR = eo],
            WithMeta(NodePlan, ms), fromFile)

\* values COOLPACK_SPA and COOLPACK_NO_SPA are tried with
SwitchValues == {"", "true", "1", "false", "TRUE"}

\* every combination of the SPA signals; is_spa: false needs a plan file
InitSPA ==
    \E ms \in MetaVariants("is_spa", {TRUE, FALSE}),
       spa \in BOOLEAN, noSPA \in BOOLEAN,
       eSpa \in SwitchValues, eNo \in SwitchValues, fromFile \in BOOLEAN :
        /\ (fromFile \/ ms[2] # [is_spa |-> FALSE])
        /\ AtOverrides(
               [DefaultCli EXCEPT !.spa = spa, !.noSPA = noSPA],
               [DefaultEnv EXCEPT !.SPA = eSpa, !.NO_SPA = eNo],
               WithMeta(NodePlan, ms), fromFile)

\* characters of COOLPACK_PACKAGES: a letter, the separator, and two of the
\* characters that are trimmed away
PkgAlphabet == {"a", ",", " ", "\n"}

\* package names of the base plan and of --packages; the last one carries a
\* trailing blank, which only the COOLPACK_PACKAGES entries are trimmed of
PkgNames == { <<"a">>, <<"a", "a">>, <<"a", " ">> }

\* elements of a custom_packages array read from JSON: strings, and a number
JsonElements ==
    { [isStr |-> TRUE, s |-> n] : n \in PkgNames } \cup { [isStr |-> FALSE, s |-> <<"7">>] }

\* values of metadata custom_packages: []string, []interface{}, something else
PackageValues ==
    { StringList(l) : l \in SeqsUpTo(PkgNames, MaxPkgs) }
        \cup { [kind |-> "ifaces", items |-> l] : l \in SeqsUpTo(JsonElements, MaxPkgs) }
        \cup { [kind |-> "other", items |-> <<>>] }

\* every base list and --packages list with two environment values, and every
\* environment value with two base lists and two --packages lists
InitPackages ==
    \/ \E ms \in MetaVariants("custom_packages", PackageValues),
          cp \in SeqsUpTo(PkgNames, MaxPkgs),
          ep \in { <<>>, <<"a", ",", " ", "a", "a">> } :
           AtOverrides([DefaultCli EXCEPT !.packages = cp],
                       [DefaultEnv EXCEPT !.PACKAGES = ep],
                       WithMeta(NodePlan, ms), ms[2] # EmptyMap)
    \/ \E ms \in MetaVariants("custom_packages", {StringList(<<<<"a">>>>)}),
          cp \in { <<>>, << <<"a", "a">> >> },
          ep \in SeqsUpTo(PkgAlphabet, MaxEnvLen) :
           AtOverrides([DefaultCli EXCEPT !.packages = cp],
                       [DefaultEnv EXCEPT !.PACKAGES = ep],
                       WithMeta(NodePlan, ms), FALSE)

\* --build-env entries: KEY=value, KEY, and the odd ones
BuildEnvEntries ==
    { <<"K", "=", "v">>, <<"K", "=", "w">>, <<"J", "=", "v">>, <<"K">>, <<"J">>,
      <<"K", "=">>, <<"=", "v">>, <<"K", "=", "v", "=", "w">> }

\* what os.LookupEnv knows of K and J
LookupEnvs ==
    { EmptyMap, [k \in {<<"K">>} |-> <<"e">>],
      [k \in {<<"K">>, <<"J">>} |-> IF k = <<"K">> THEN <<"e">> ELSE <<>>] }

\* buildEnv of the base plan
BaseBuildEnvs ==
    { EmptyMap, [k \in {<<"K">>} |-> <<"o">>],
      [k \in {<<"K">>, <<"Z">>} |-> <<"o">>] }

InitBuildEnv ==
    \E b \in BaseBuildEnvs, l \in LookupEnvs,
       a \in SeqsUpTo(BuildEnvEntries, MaxBuildEnvs) :
        AtOverrides([DefaultCli EXCEPT !.buildEnvs = a],
                    [DefaultEnv EXCEPT !.lookup = l],
                    [NodePlan EXCEPT !.BuildEnv = b], FALSE)

\* a base plan with every field filled
FullPlan ==
    [NodePlan EXCEPT
        !.BuildCommand = "npm run build",
        !.BuildEnv = [k \in {<<"K">>} |-> <<"o">>],
        !.Metadata = [static_server |-> "caddy", is_spa |-> TRUE,
                      output_dir_override |-> "dist",
                      custom_packages |-> StringList(<< <<"a">> >>)]]

\* a plan as a plan file gives it: no language, is_spa false, packages as a
\* JSON array that names a twice
FilePlan ==
    [ZeroPlan EXCEPT
        !.StartCommand = "file-start",
        !.MetadataNil = FALSE,
        !.Metadata = [is_spa |-> FALSE,
                      custom_packages |->
                          [kind |-> "ifaces",
                           items |-> << [isStr |-> TRUE, s |-> <<"a">>],
                                        [isStr |-> FALSE, s |-> <<"7">>],
                                        [isStr |-> TRUE, s |-> <<"a">>] >>]]]

\* every override step with its flag or variable given or not, on a full
\* plan, on a plan with nil metadata and on a plan from a file
InitMixed ==
    \E base \in { <<FullPlan, FALSE>>, <<[NodePlan EXCEPT !.MetadataNil = TRUE], FALSE>>,
                  <<FilePlan, TRUE>> },
       cs \in {"", "cli-start"}, ss \in {"", "nginx"},
       sw \in {"none", "spa", "nospa"}, od \in {"", "out"},
       pk \in { <<>>, <<"a", ",", "a", "a">> },
       cp \in { <<>>, << <<"a", " ">> >> },
       be \in { <<>>, << <<"J", "=", "v">> >> } :
        AtOverrides(
            [DefaultCli EXCEPT !.startCmd = cs, !.spa = (sw = "spa"),
                               !.outputDir = od, !.packages = cp, !.buildEnvs = be],
            [DefaultEnv EXCEPT !.STATIC_SERVER = ss,
                               !.NO_SPA = IF sw = "nospa" THEN "true" ELSE "",
                               !.PACKAGES = pk],
            base[1], base[2])

InitOverlay ==
    \/ InitCommands
    \/ InitMetaScalars
    \/ InitSPA
    \/ InitPackages
    \/ InitBuildEnv
    \/ InitMixed

NextOverlay ==
    \/ ApplyCommandOverrides
    \/ ApplyStaticServerSetting
    \/ ApplySPASetting
    \/ ApplyOutputDirSetting
    \/ ApplyCustomPackages
    \/ ApplyBuildEnvOverride

SpecOverlay == InitOverlay /\ [][NextOverlay]_vars

\* the override phase for the inputs that switch whole steps on and off: the
\* commands, the metadata scalars, the SPA signals, and the mixed plans
InitSteps ==
    \/ InitCommands
    \/ InitMetaScalars
    \/ InitSPA
    \/ InitMixed

SpecSteps == InitSteps /\ [][NextOverlay]_vars

-----------------------------------------------------------------------------
(* Properties *)

\* the override step that ran last ("" before the first)
LastApplied == IF applied = <<>> THEN "" ELSE applied[Len(applied)]

Largest(S) == CHOOSE x \in S : \A y \in S : y <= x

Smallest(S) == CHOOSE x \in S : \A y \in S : x <= y

\* the last non-empty value of layers (base, environment, CLI); the base when
\* every layer is empty
LastNonEmpty(layers) ==
    LET filled == { i \in 2..Len(layers) : layers[i] # "" } IN
    IF filled = {} THEN layers[1] ELSE layers[Largest(filled)]

\* a metadata key after its step: written with the last non-empty override,
\* or exactly as it was (absent stays absent)
KeyResolved(key, envValue, cliValue) ==
    IF envValue = "" /\ cliValue = ""
    THEN /\ (key \in DOMAIN plan.Metadata) = (key \in DOMAIN before.Metadata)
         /\ key \in DOMAIN plan.Metadata => plan.Metadata[key] = before.Metadata[key]
    ELSE /\ key \in DOMAIN plan.Metadata
         /\ plan.Metadata[key] = LastNonEmpty(<<"", envValue, cliValue>>)

\* C1: after its override step each scalar field (the three commands,
\* static_server, output_dir_override) holds the last non-empty value in the
\* order base, environment, CLI; with no override the base value, or the
\* absence of the metadata key, is kept.
C1_ScalarLastNonEmptyWins ==
    /\ LastApplied = "commands" =>
          /\ plan.InstallCommand =
                LastNonEmpty(<<before.InstallCommand, env.INSTALL_CMD, cli.installCmd>>)
          /\ plan.BuildCommand =
                LastNonEmpty(<<before.BuildCommand, env.BUILD_CMD, cli.buildCmd>>)
          /\ plan.StartCommand =
                LastNonEmpty(<<before.StartCommand, env.START_CMD, cli.startCmd>>)
    /\ LastApplied = "staticServer" =>
          KeyResolved("static_server", env.STATIC_SERVER, cli.staticServer)
    /\ LastApplied = "outputDir" =>
          KeyResolved("output_dir_override", env.SPA_OUTPUT_DIR, cli.outputDir)

\* the command step ran with all three layers of the start command set and
\* only the environment layer of the build command set
C1_Witness ==
    /\ LastApplied = "commands"
    /\ before.StartCommand # "" /\ env.START_CMD # "" /\ cli.startCmd # ""
    /\ before.BuildCommand = "" /\ env.BUILD_CMD # "" /\ cli.buildCmd = ""
    /\ plan.StartCommand = cli.startCmd
    /\ plan.BuildCommand = env.BUILD_CMD

\* a SPA disable signal: --no-spa, or COOLPACK_NO_SPA equal to "true" or "1"
DisableSignal == cli.noSPA \/ env.NO_SPA \in {"true", "1"}

\* C2: once prepareApplySPASetting has run with a disable signal supplied,
\* is_spa is absent from the plan, whatever the base plan held and whatever
\* enable signals came with it.
C2_DisableRemovesIsSpa ==
    (LastApplied = "spa" /\ DisableSignal) => "is_spa" \notin DOMAIN plan.Metadata

\* the step ran on a base plan holding is_spa, with --spa on the command line
\* and the disable signal coming from the environment alone
C2_Witness ==
    /\ LastApplied = "spa"
    /\ "is_spa" \in DOMAIN before.Metadata
    /\ cli.spa /\ ~cli.noSPA /\ env.NO_SPA = "1"
    /\ "is_spa" \notin DOMAIN plan.Metadata

\* layers of the SPA signals: 0 base plan, 1 environment, 2 command line
EnableAt(layer) ==
    CASE layer = 0 -> "is_spa" \in DOMAIN before.Metadata
      [] layer = 1 -> env.SPA \in {"true", "1"}
      [] layer = 2 -> cli.spa

DisableAt(layer) ==
    CASE layer = 0 -> FALSE
      [] layer = 1 -> env.NO_SPA \in {"true", "1"}
      [] layer = 2 -> cli.noSPA

\* C3 as stated: is_spa is present exactly when some enable signal fired and
\* no disable signal fired at a layer of equal or higher priority than it.
C3_AsStated ==
    LastApplied = "spa" =>
        (("is_spa" \in DOMAIN plan.Metadata) <=>
            \E l \in 0..2 : EnableAt(l) /\ \A h \in l..2 : ~DisableAt(h))

\* C3 amended: is_spa is present exactly when some enable signal fired (the
\* base plan holds the key, COOLPACK_SPA is "true" or "1", or --spa) and no
\* disable signal fired at any layer.
C3_PresentIffEnabledAndNeverDisabled ==
    LastApplied = "spa" =>
        (("is_spa" \in DOMAIN plan.Metadata) <=>
            /\ \E l \in 0..2 : EnableAt(l)
            /\ \A h \in 0..2 : ~DisableAt(h))

\* the key was set by COOLPACK_SPA=1 alone: the base plan lacked it, no flag
C3_Witness ==
    /\ LastApplied = "spa"
    /\ "is_spa" \notin DOMAIN before.Metadata
    /\ ~cli.spa /\ env.SPA = "1" /\ ~DisableSignal
    /\ "is_spa" \in DOMAIN plan.Metadata

\* the entries of seq at the positions I, in increasing order of position
Pick(seq, I) ==
    [n \in 1..Cardinality(I) |->
        seq[CHOOSE k \in I : Cardinality({ j \in I : j <= k }) = n]]

\* positions that delimit the comma-separated pieces of v
PieceBounds(v) == {0} \cup { i \in 1..Len(v) : v[i] = "," } \cup {Len(v) + 1}

\* the piece of v that starts after position lo, without surrounding whitespace
TrimmedPiece(v, lo) ==
    LET hi == Smallest({ b \in PieceBounds(v) : b > lo })
        solid == { i \in (lo + 1)..(hi - 1) : v[i] \notin WhiteSpace }
    IN  IF solid = {} THEN <<>> ELSE SubSeq(v, Smallest(solid), Largest(solid))

\* the packages a COOLPACK_PACKAGES value names: its comma-separated pieces,
\* trimmed, the empty ones dropped
NamedByEnv(v) ==
    LET starts == { lo \in PieceBounds(v) \ {Len(v) + 1} : TrimmedPiece(v, lo) # <<>> }
    IN  [n \in 1..Cardinality(starts) |->
            TrimmedPiece(v, CHOOSE k \in starts : Cardinality({ j \in starts : j <= k }) = n)]

\* the package names a custom_packages value of the base plan holds
NamedByBase(m) ==
    IF "custom_packages" \notin DOMAIN m \/ m["custom_packages"].kind = "other"
    THEN <<>>
    ELSE LET items == m["custom_packages"].items
             names == [i \in 1..Len(items) |-> items[i].s]
         IN  Pick(names, { i \in 1..Len(items) : items[i].isStr })

\* existing packages, then --packages, then COOLPACK_PACKAGES
AllNamed == NamedByBase(before.Metadata) \o cli.packages \o NamedByEnv(env.PACKAGES)

\* seq without the entries that repeat an earlier one
FirstOccurrences(seq) ==
    Pick(seq, { i \in 1..Len(seq) : \A j \in 1..(i - 1) : seq[j] # seq[i] })

\* the names a custom_packages value lists
Listed(val) == [i \in 1..Len(val.items) |-> val.items[i].s]

\* C4: when at least one package results, custom_packages after the step is
\* the first-occurrence deduplication of existing packages, then --packages,
\* then the COOLPACK_PACKAGES entries (split on commas, trimmed, empty ones
\* dropped).
C4_PackagesAreDedupedConcatenation ==
    (LastApplied = "packages" /\ AllNamed # <<>>) =>
        /\ "custom_packages" \in DOMAIN plan.Metadata
        /\ plan.Metadata["custom_packages"].kind = "strings"
        /\ \A i \in 1..Len(plan.Metadata["custom_packages"].items) :
              plan.Metadata["custom_packages"].items[i].isStr
        /\ Listed(plan.Metadata["custom_packages"]) = FirstOccurrences(AllNamed)

\* existing [a], --packages aa, COOLPACK_PACKAGES "a,aa" padded with a blank:
\* three sources, every later entry a repeat
C4_Witness ==
    /\ LastApplied = "packages"
    /\ NamedByBase(before.Metadata) = << <<"a">> >>
    /\ cli.packages = << <<"a", "a">> >>
    /\ Len(NamedByEnv(env.PACKAGES)) = 2
    /\ \E i \in 1..Len(env.PACKAGES) : env.PACKAGES[i] = " "
    /\ Listed(plan.Metadata["custom_packages"]) = << <<"a">>, <<"a", "a">> >>

\* position of the first occurrence of x in seq
FirstIndex(seq, x) == Smallest({ i \in 1..Len(seq) : seq[i] = x })

\* a custom_packages value that is a list of strings only
IsNameList(val) ==
    /\ val.kind \in {"strings", "ifaces"}
    /\ \A i \in 1..Len(val.items) : val.items[i].isStr

\* C5: in the resolved plan a custom_packages list of package names holds no
\* name twice, and its names stand in the order in which they were first seen
\* across existing, CLI and environment packages.
C5_NoDuplicatesFirstSeenOrder ==
    ("packages" \in { applied[i] : i \in 1..Len(applied) }
        /\ "custom_packages" \in DOMAIN plan.Metadata
        /\ IsNameList(plan.Metadata["custom_packages"])) =>
        LET r == Listed(plan.Metadata["custom_packages"]) IN
        /\ \A i, j \in 1..Len(r) : i # j => r[i] # r[j]
        /\ LastApplied = "packages" =>
              /\ { r[i] : i \in 1..Len(r) } = { AllNamed[i] : i \in 1..Len(AllNamed) }
              /\ \A i, j \in 1..Len(r) :
                    i < j => FirstIndex(AllNamed, r[i]) < FirstIndex(AllNamed, r[j])

\* the base plan listed the same name twice and neither --packages nor
\* COOLPACK_PACKAGES was given
C5_Witness ==
    /\ LastApplied = "packages"
    /\ NamedByBase(before.Metadata) = << <<"a">>, <<"a">> >>
    /\ cli.packages = <<>> /\ env.PACKAGES = <<>>
    /\ Listed(plan.Metadata["custom_packages"]) = << <<"a">> >>

\* positions of "=" in a --build-env entry
EqualsIn(entry) == { j \in 1..Len(entry) : entry[j] = "=" }

\* the entry defines a variable: KEY=value, or KEY with KEY set in the environment
Defines(entry) == EqualsIn(entry) # {} \/ entry \in DOMAIN env.lookup

KeyOf(entry) ==
    IF EqualsIn(entry) # {} THEN SubSeq(entry, 1, Smallest(EqualsIn(entry)) - 1) ELSE entry

ValueOf(entry) ==
    IF EqualsIn(entry) # {}
    THEN SubSeq(entry, Smallest(EqualsIn(entry)) + 1, Len(entry))
    ELSE env.lookup[entry]

\* the mapping the --build-env entries denote: for each key, the value of the
\* last entry that defines it
DenotedBuildEnv ==
    LET defining == { i \in 1..Len(cli.buildEnvs) : Defines(cli.buildEnvs[i]) }
        keys == { KeyOf(cli.buildEnvs[i]) : i \in defining }
    IN  [k \in keys |->
            ValueOf(cli.buildEnvs[Largest({ i \in defining : KeyOf(cli.buildEnvs[i]) = k })])]

\* C6: a non-empty build-env override replaces buildEnv whole (exactly the
\* parsed mapping, no prior key kept); an empty one leaves buildEnv as it was.
C6_BuildEnvReplacedWhole ==
    LastApplied = "buildEnv" =>
        IF DOMAIN DenotedBuildEnv # {}
        THEN plan.BuildEnv = DenotedBuildEnv
        ELSE plan.BuildEnv = before.BuildEnv

\* the plan had K and Z; --build-env J --build-env K, J set but empty in the
\* environment and K set to e: the result is J and K from the environment, Z gone
C6_Witness ==
    /\ LastApplied = "buildEnv"
    /\ DOMAIN before.BuildEnv = { <<"K">>, <<"Z">> }
    /\ cli.buildEnvs = << <<"J">>, <<"K">> >>
    /\ DOMAIN plan.BuildEnv = { <<"J">>, <<"K">> }
    /\ plan.BuildEnv[<<"J">>] = <<>>
    /\ plan.BuildEnv[<<"K">>] = <<"e">>

\* a plan the generator may be given: some command, or a static site
PlanValid(p) ==
    \/ p.InstallCommand # ""
    \/ p.BuildCommand # ""
    \/ p.StartCommand # ""
    \/ p.Language = "static"

\* C7 as stated: a resolved plan with the three commands empty and a language
\* other than static is rejected before generation: the generator is never
\* invoked on it, no Dockerfile is written and the run does not succeed.
C7_InvalidPlanRejected ==
    (Len(applied) = 6 /\ ~PlanValid(plan)) =>
        /\ genCalls = 0
        /\ dockerfile = "none"
        /\ result # "nil"

\* C8: a plan file that cannot be read or parsed ends the run at once with an
\* error: no detection, no override step, no generator call, no Dockerfile.
C8_PlanFileFailureIsFinal ==
    obs.load \in {"readerr", "parseerr"} =>
        /\ pc = "done"
        /\ result = "failed to load plan file"
        /\ ~hasPlan
        /\ detectCalls = 0
        /\ applied = <<>>
        /\ genCalls = 0
        /\ ~coolpackDir
        /\ dockerfile = "none"

\* coolpack.json of the project root was picked up and did not parse
C8_Witness ==
    /\ cli.planFile = ""
    /\ loadedFrom = DefaultPlanFile
    /\ obs.load = "parseerr"
    /\ pc = "done"

\* a stage the run cannot continue from has failed
StageFailed ==
    \/ obs.abs = "err"
    \/ obs.pathStat = "notexist"
    \/ obs.load \in {"readerr", "parseerr"}
    \/ obs.detect \in {"err", "nil"}
    \/ obs.gen = "err"

\* C9: a run in which path resolution, plan-file loading, detection or
\* generation fails returns an error and never writes the Dockerfile; the
\* Dockerfile is touched only after the generator returned text.
C9_FailFast ==
    /\ StageFailed =>
          /\ pc = "done"
          /\ result \notin {"running", "nil"}
          /\ dockerfile = "none"
    /\ dockerfile # "none" => (obs.gen = "text" /\ genCalls = 1)
    /\ result = "nil" => (dockerfile = "written" /\ ~StageFailed)

\* the generator was called on a resolved plan and returned an error
C9_Witness ==
    /\ obs.gen = "err"
    /\ genCalls = 1
    /\ coolpackDir
    /\ result = "failed to generate Dockerfile"
    /\ dockerfile = "none"

\* the file the base plan is to come from: --plan, else coolpack.json of the
\* project root if os.Stat finds it, else none (detection)
ChosenPlanFile ==
    IF cli.planFile # "" THEN cli.planFile
    ELSE IF fs.coolpackJson THEN DefaultPlanFile
    ELSE ""

\* C10: the base plan has one source per run: the --plan file if given, else
\* coolpack.json of the project root if present, else detection; with a plan
\* file selected detection never runs, and --plan wins over coolpack.json.
C10_OneBasePlanSource ==
    /\ loadCalls + detectCalls <= 1
    /\ pc \notin {"start", "statPath", "choosePlanFile"} =>
          (obs.abs = "ok" /\ obs.pathStat # "notexist" => planFile = ChosenPlanFile)
    /\ pc \notin {"start", "statPath", "choosePlanFile", "load", "detect"} =>
          (obs.abs = "ok" /\ obs.pathStat # "notexist" => loadCalls + detectCalls = 1)
    /\ hasPlan => loadCalls + detectCalls = 1
    /\ loadCalls = 1 => (ChosenPlanFile # "" /\ loadedFrom = ChosenPlanFile)
    /\ detectCalls = 1 => ChosenPlanFile = ""
    /\ ChosenPlanFile # "" => detectCalls = 0

\* --plan was given while coolpack.json exists too: the --plan file was loaded
C10_Witness ==
    /\ cli.planFile = "custom.json"
    /\ fs.coolpackJson
    /\ hasPlan
    /\ loadCalls = 1
    /\ loadedFrom = "custom.json"
    /\ detectCalls = 0

\* C11: the override sequence is idempotent: applied once more, with the same
\* flags and environment, to the plan it has resolved, it returns that plan.
C11_OverridesIdempotent ==
    Len(applied) = 6 => ApplyOverrides(plan, cli, env) = plan

\* the six steps ran on a plan from a file whose package array named a twice,
\* with packages from the environment and a build-env entry
C11_Witness ==
    /\ Len(applied) = 6
    /\ loadCalls = 1
    /\ env.PACKAGES # <<>>
    /\ cli.buildEnvs # <<>>
    /\ cli.startCmd # ""
    /\ Listed(plan.Metadata["custom_packages"]) = << <<"a">>, <<"a", "a">> >>
    /\ DOMAIN plan.BuildEnv = { <<"J">> }

\* C12 as stated: in the resolved plan handed to the generator the key is_spa
\* is present only when SPA mode is active, that is, only with the value true.
C12_IsSpaPresentMeansTrue ==
    (genCalls > 0 /\ "is_spa" \in DOMAIN genInput.Metadata) =>
        genInput.Metadata["is_spa"] = TRUE

\* the override steps in the order of runPrepare
StepOrder == <<"commands", "staticServer", "spa", "outputDir", "packages", "buildEnv">>

\* the stages reached so far came in the order of the pipeline
C13_Order ==
    /\ Len(applied) <= Len(StepOrder)
    /\ applied = SubSeq(StepOrder, 1, Len(applied))
    /\ loadCalls + detectCalls <= 1
    /\ applied # <<>> => (hasPlan /\ loadCalls + detectCalls = 1)
    /\ genCalls <= 1
    /\ genCalls = 1 => (Len(applied) = Len(StepOrder) /\ genInput = plan)
    /\ (dockerfile # "none" \/ obs.write # Unobserved) => (genCalls = 1 /\ obs.gen = "text")

\* no stage is repeated: the base plan is obtained once, the generator is
\* called once and the plan is left alone from then on, the Dockerfile is
\* written once
C13_Step ==
    /\ hasPlan => (loadCalls' = loadCalls /\ detectCalls' = detectCalls)
    /\ genCalls > 0 => (plan' = plan /\ applied' = applied /\ genCalls' = genCalls
                        /\ genInput' = genInput)
    /\ obs.write # Unobserved => (dockerfile' = dockerfile /\ obs' = obs)

\* C13: within one run the stages come in a fixed order, each at most once:
\* base plan, the six override steps, one generator call on the resolved plan,
\* one Dockerfile write; the generator is never called before the last
\* override step and nothing changes the plan after it was called.
C13_StagesInOrderOnce == [](C13_Order) /\ [][C13_Step]_vars

\* a run that went through every stage and wrote the Dockerfile
C13_Witness ==
    /\ pc = "done"
    /\ result = "nil"
    /\ applied = StepOrder
    /\ genCalls = 1
    /\ genInput = plan
    /\ dockerfile = "written"

\* the plans a and b agree on every field but the metadata map
SameOutsideMetadata(a, b) ==
    /\ a.Language = b.Language
    /\ a.InstallCommand = b.InstallCommand
    /\ a.BuildCommand = b.BuildCommand
    /\ a.StartCommand = b.StartCommand
    /\ a.BuildEnv = b.BuildEnv

\* the latest step left every field outside the metadata map, and every
\* metadata key but `key`, as it was
OnlyKeyTouched(key) ==
    /\ SameOutsideMetadata(before, plan)
    /\ (DOMAIN plan.Metadata) \ {key} = (DOMAIN before.Metadata) \ {key}
    /\ \A k \in (DOMAIN before.Metadata) \ {key} : plan.Metadata[k] = before.Metadata[k]

\* the latest step left the metadata key as it was, absent or with its value
KeyUntouched(key) ==
    /\ (key \in DOMAIN plan.Metadata) = (key \in DOMAIN before.Metadata)
    /\ key \in DOMAIN before.Metadata => plan.Metadata[key] = before.Metadata[key]

\* what each step did to the fields that are not its own
C14_Frame ==
    /\ LastApplied = "commands" =>
          /\ plan = [before EXCEPT !.InstallCommand = plan.InstallCommand,
                                   !.BuildCommand = plan.BuildCommand,
                                   !.StartCommand = plan.StartCommand]
          /\ (cli.installCmd = "" /\ env.INSTALL_CMD = "") =>
                plan.InstallCommand = before.InstallCommand
          /\ (cli.buildCmd = "" /\ env.BUILD_CMD = "") =>
                plan.BuildCommand = before.BuildCommand
          /\ (cli.startCmd = "" /\ env.START_CMD = "") =>
                plan.StartCommand = before.StartCommand
    /\ LastApplied = "staticServer" => OnlyKeyTouched("static_server")
    /\ LastApplied = "spa" => OnlyKeyTouched("is_spa")
    /\ LastApplied = "outputDir" => OnlyKeyTouched("output_dir_override")
    /\ LastApplied = "packages" =>
          /\ OnlyKeyTouched("custom_packages")
          /\ AllNamed = <<>> => KeyUntouched("custom_packages")

\* the five steps of lines 122-135, by position in the code
StepApplied(i, p) ==
    CASE i = 1 -> prepareApplyCommandOverrides(p, cli.installCmd, cli.buildCmd,
                                               cli.startCmd, env)
      [] i = 2 -> prepareApplyStaticServerSetting(p, cli.staticServer, env)
      [] i = 3 -> prepareApplySPASetting(p, cli.spa, cli.noSPA, env)
      [] i = 4 -> prepareApplyOutputDirSetting(p, cli.outputDir, env)
      [] i = 5 -> prepareApplyCustomPackages(p, cli.packages, env)

\* the plan after the steps order[1], .., order[n], applied in that order
RECURSIVE AppliedInOrder(_, _, _)
AppliedInOrder(order, n, p) ==
    IF n = 0 THEN p ELSE StepApplied(order[n], AppliedInOrder(order, n - 1, p))

\* every order of the five steps
StepOrders == Permutations(1..5)

\* C14: each override step changes only its own field (each command only by
\* its own flag and variable; custom_packages not at all when no package
\* results), so that the five steps give the same plan in whatever order they
\* are applied. Making a nil metadata map is not counted as a change.
C14_StepsTouchOwnFieldOnly ==
    /\ C14_Frame
    /\ (pc = "commands" /\ applied = <<>>) =>
          LET inCodeOrder == AppliedInOrder(<<1, 2, 3, 4, 5>>, 5, plan) IN
          \A o \in StepOrders : AppliedInOrder(o, 5, plan) = inCodeOrder

\* the package step ran on a full plan and changed custom_packages alone,
\* after the SPA step had removed is_spa
C14_Witness ==
    /\ LastApplied = "packages"
    /\ DOMAIN before.Metadata = {"static_server", "output_dir_override", "custom_packages"}
    /\ before.BuildEnv # EmptyMap
    /\ cli.noSPA \/ env.NO_SPA = "true"
    /\ plan.Metadata["custom_packages"] # before.Metadata["custom_packages"]
    /\ plan.Metadata["static_server"] = before.Metadata["static_server"]

====
